---- MODULE Spec2Model ----
(***************************************************************************)
(* Model of src/cli_common.rs: get_config_dir, read_identities,            *)
(* read_secret and read_or_generate_passphrase.                            *)
(*                                                                         *)
(* Paths and strings are sequences of bytes (0..255).  A call is modelled  *)
(* step by step: `call` is the function that was called, `pc` the position *)
(* inside it, `result` what it returned.                                   *)
(***************************************************************************)
EXTENDS Integers, Sequences, FiniteSets, TLC

VARIABLES
    call,           \* which public function is being called
    pc,             \* position inside the call
    result,         \* the value the call returned (NoResult while running)
    \* ---- environment of read_identities
    targetOs,       \* cfg(target_os): "macos" or "other"
    dataDir,        \* what dirs::data_dir() returns
    configDir,      \* what dirs::config_dir() returns
    fs,             \* outcome of opening+parsing each explicit file name
    defaultFile,    \* outcome of opening+parsing the default keys file
    \* ---- state of read_identities
    filenames,      \* the `filenames` argument
    idx,            \* position of the for loop over filenames
    identities,     \* the local `identities` vector
    defaultFilename,\* the local `default_filename` (None before it is computed)
    located,        \* number of get_config_dir() calls made
    opened,         \* the paths handed to File::open / Identity::from_file, in order
    noDefaultArgs,  \* the arguments no_default was invoked with, in order
    \* ---- state of read_secret / read_or_generate_passphrase
    confirm,        \* the `confirm` argument: TRUE for Some(_), FALSE for None
    password,       \* first entry of the current round of the prompt
    pw2,            \* confirmation entry of the current round
    prompts,        \* number of times the first prompt was shown (capped)
    readFailed,     \* a read of the terminal returned an io::Error
    res,            \* the local `res` of read_or_generate_passphrase
    acc,            \* the accumulator of the fold
    draws           \* the indices sampled from the Uniform distribution, in order

loadVars == <<targetOs, dataDir, configDir, fs, defaultFile, filenames, idx,
              identities, defaultFilename, located, opened, noDefaultArgs>>
passVars == <<confirm, password, pw2, prompts, readFailed, res, acc, draws>>
vars == <<call, pc, result, loadVars, passVars>>

(***************************************************************************)
(* Bounds of the model.                                                    *)
(***************************************************************************)
MaxFiles == 3       \* longest explicit path list tried
MaxIds == 2         \* most identities a file holds
MaxSamples == 2     \* number of distinct indices the entropy source is seen to yield
MaxPrompts == 3     \* the counter of prompts stops counting here

(***************************************************************************)
(* Bytes and strings.                                                      *)
(***************************************************************************)
\* Option::None; -1 is not a byte, so no string or path equals it
None == <<-1>>
NoResult == [tag |-> "running"]
EmptyStr == <<>>

Slash == 47
Hyphen == 45
\* "age/keys.txt"
AgeKeysTxt == <<97, 103, 101, 47, 107, 101, 121, 115, 46, 116, 120, 116>>

\* Validity of a byte sequence as UTF-8 (what Path::to_str checks).
RECURSIVE Utf8Valid(_)
Utf8Valid(b) ==
    IF b = <<>> THEN TRUE
    ELSE LET c == b[1]
             Cont(k) == k <= Len(b) /\ b[k] >= 128 /\ b[k] <= 191
             Rest(n) == SubSeq(b, n + 1, Len(b))
         IN  IF c <= 127 THEN Utf8Valid(Rest(1))
             ELSE IF c >= 194 /\ c <= 223
                  THEN Cont(2) /\ Utf8Valid(Rest(2))
             ELSE IF c >= 224 /\ c <= 239
                  THEN /\ Cont(2) /\ Cont(3)
                       /\ (c = 224 => b[2] >= 160)
                       /\ (c = 237 => b[2] <= 159)
                       /\ Utf8Valid(Rest(3))
             ELSE IF c >= 240 /\ c <= 244
                  THEN /\ Cont(2) /\ Cont(3) /\ Cont(4)
                       /\ (c = 240 => b[2] >= 144)
                       /\ (c = 244 => b[2] <= 143)
                       /\ Utf8Valid(Rest(4))
             ELSE FALSE

\* path.to_str().unwrap_or("")
ToStrOrEmpty(path) == IF Utf8Valid(path) THEN path ELSE EmptyStr

\* path.push(rel) for a relative `rel`: a separator is added unless the path
\* already ends with one.
PathPush(path, rel) ==
    IF path # <<>> /\ path[Len(path)] = Slash THEN path \o rel
    ELSE path \o <<Slash>> \o rel

(***************************************************************************)
(* get_config_dir                                                          *)
(***************************************************************************)
get_config_dir == IF targetOs = "macos" THEN dataDir ELSE configDir

\* The directories the platform lookup is seen to return: absent, an ASCII
\* path, a path with a two-byte character, a path that is not Unicode.
DataDirs == {None, <<47, 100>>, <<47, 100, 195, 169>>, <<47, 100, 255>>}
ConfigDirs == {None, <<47, 99>>, <<47, 99, 47>>, <<47, 99, 254>>}

(***************************************************************************)
(* Files.  The outcome of opening and parsing a file is fixed for the      *)
(* duration of a call.                                                     *)
(***************************************************************************)
FileA == <<65>>
FileB == <<66>>
FileNames == {FileA, FileB}

IoKinds == {"NotFound", "PermissionDenied"}

\* The identities of file f: <<f, 1>>, ..., <<f, n>>.
IdsOf(f, n) == [i \in 1..n |-> <<f, i>>]

Outcomes(f) ==
    {[tag |-> "ok", ids |-> IdsOf(f, n)] : n \in 0..MaxIds}
    \cup {[tag |-> "open_err", kind |-> k] : k \in IoKinds}
    \cup {[tag |-> "parse_err"]}

DefaultName == <<68>>

\* E::from(io::Error)
FromIo(kind) == [from |-> "io", kind |-> kind]
\* the error Identity::from_buffer / from_file reports for a malformed file
ParseError == [from |-> "parse"]
\* the error the caller's no_default(arg) builds
NoDefaultError(arg) == [from |-> "no_default", arg |-> arg]

Ok(v) == [tag |-> "ok", val |-> v]
Err(e) == [tag |-> "err", err |-> e]
Panic == [tag |-> "panic"]

\* Identity::from_file(filename): open the file, parse it.
from_file(filename) ==
    LET o == fs[filename]
    IN  IF o.tag = "ok" THEN Ok(o.ids)
        ELSE IF o.tag = "open_err" THEN Err(FromIo(o.kind))
        ELSE Err(ParseError)

\* Identity::from_buffer(buf) on the opened default file.
from_buffer ==
    IF defaultFile.tag = "ok" THEN Ok(defaultFile.ids) ELSE Err(ParseError)

\* Sequences over S of length 0..n
SeqUpTo(S, n) == UNION {[1..k -> S] : k \in 0..n}

(***************************************************************************)
(* read_identities                                                         *)
(***************************************************************************)
InitLoadEnv ==
    /\ targetOs \in {"macos", "other"}
    /\ dataDir \in DataDirs
    /\ configDir \in ConfigDirs
    /\ fs \in {f \in [FileNames -> UNION {Outcomes(n) : n \in FileNames}] :
                 \A n \in FileNames : f[n] \in Outcomes(n)}
    /\ defaultFile \in Outcomes(DefaultName)

InitLoadState ==
    /\ idx = 1
    /\ identities = <<>>
    /\ defaultFilename = None
    /\ located = 0
    /\ opened = <<>>
    /\ noDefaultArgs = <<>>

InitPassState ==
    /\ password = None
    /\ pw2 = None
    /\ prompts = 0
    /\ readFailed = FALSE
    /\ res = None
    /\ acc = EmptyStr
    /\ draws = <<>>

\* line 45-47: let mut identities = vec![]; if filenames.is_empty()
LoadEnter ==
    /\ call = "read_identities" /\ pc = "start"
    /\ pc' = IF filenames = <<>> THEN "locate" ELSE "loop"
    /\ UNCHANGED <<call, result, loadVars, passVars>>

\* LoadLocate with unwrap_or_default() in place of expect(): an absent
\* directory becomes the relative path "age/keys.txt".
LoadLocate_Guess ==
    /\ call = "read_identities" /\ pc = "locate"
    /\ located' = located + 1
    /\ pc' = "open_default"
    /\ defaultFilename' = IF get_config_dir = None THEN AgeKeysTxt
                          ELSE PathPush(get_config_dir, AgeKeysTxt)
    /\ UNCHANGED <<call, result, targetOs, dataDir, configDir, fs, defaultFile,
                   filenames, idx, identities, opened, noDefaultArgs, passVars>>

\* line 48-53: get_config_dir().map(push "age/keys.txt").expect(..)
LoadLocate ==
    /\ call = "read_identities" /\ pc = "locate"
    /\ located' = located + 1
    /\ IF get_config_dir = None
       THEN /\ pc' = "done"
            /\ result' = Panic
            /\ UNCHANGED defaultFilename
       ELSE /\ pc' = "open_default"
            /\ defaultFilename' = PathPush(get_config_dir, AgeKeysTxt)
            /\ UNCHANGED result
    /\ UNCHANGED <<call, targetOs, dataDir, configDir, fs, defaultFile, filenames,
                   idx, identities, opened, noDefaultArgs, passVars>>

\* LoadOpenDefault with the match on e.kind() dropped: no_default builds the
\* error for every failure of the open.
LoadOpenDefault_AnyKind ==
    /\ call = "read_identities" /\ pc = "open_default"
    /\ opened' = Append(opened, defaultFilename)
    /\ IF defaultFile.tag = "open_err"
       THEN /\ noDefaultArgs' = Append(noDefaultArgs, ToStrOrEmpty(defaultFilename))
            /\ result' = Err(NoDefaultError(ToStrOrEmpty(defaultFilename)))
            /\ pc' = "done"
       ELSE /\ pc' = "parse_default"
            /\ UNCHANGED <<result, noDefaultArgs>>
    /\ UNCHANGED <<call, targetOs, dataDir, configDir, fs, defaultFile, filenames,
                   idx, identities, defaultFilename, located, passVars>>

\* line 54-57: File::open(&default_filename).map_err(..)?
LoadOpenDefault ==
    /\ call = "read_identities" /\ pc = "open_default"
    /\ opened' = Append(opened, defaultFilename)
    /\ IF defaultFile.tag = "open_err"
       THEN IF defaultFile.kind = "NotFound"
            THEN /\ noDefaultArgs' = Append(noDefaultArgs, ToStrOrEmpty(defaultFilename))
                 /\ result' = Err(NoDefaultError(ToStrOrEmpty(defaultFilename)))
                 /\ pc' = "done"
            ELSE /\ result' = Err(FromIo(defaultFile.kind))
                 /\ pc' = "done"
                 /\ UNCHANGED noDefaultArgs
       ELSE /\ pc' = "parse_default"
            /\ UNCHANGED <<result, noDefaultArgs>>
    /\ UNCHANGED <<call, targetOs, dataDir, configDir, fs, defaultFile, filenames,
                   idx, identities, defaultFilename, located, passVars>>

\* line 58-59: identities.extend(Identity::from_buffer(buf)?)
LoadParseDefault ==
    /\ call = "read_identities" /\ pc = "parse_default"
    /\ IF from_buffer.tag = "ok"
       THEN /\ identities' = identities \o from_buffer.val
            /\ pc' = "return"
            /\ UNCHANGED result
       ELSE /\ result' = Err(from_buffer.err)
            /\ pc' = "done"
            /\ UNCHANGED identities
    /\ UNCHANGED <<call, targetOs, dataDir, configDir, fs, defaultFile, filenames,
                   idx, defaultFilename, located, opened, noDefaultArgs, passVars>>

\* What one iteration does with the outcome r of from_file, given the
\* identities collected so far: the new `identities`, or the error of `?`.
\* Mutants: the new identities put in front; a failing file skipped.
Extend_Prepend(ids, r) == IF r.tag = "ok" THEN Ok(r.val \o ids) ELSE r
Extend_SkipFailure(ids, r) == IF r.tag = "ok" THEN Ok(ids \o r.val) ELSE Ok(ids)

\* line 62: identities.extend(Identity::from_file(filename)?)
Extend(ids, r) == IF r.tag = "ok" THEN Ok(ids \o r.val) ELSE r

\* line 61-63: one iteration of `for filename in filenames`
LoadLoop ==
    /\ call = "read_identities" /\ pc = "loop"
    /\ IF idx > Len(filenames)
       THEN /\ pc' = "return"
            /\ UNCHANGED <<result, idx, identities, opened>>
       ELSE LET r == Extend(identities, from_file(filenames[idx]))
            IN  /\ opened' = Append(opened, filenames[idx])
                /\ IF r.tag = "ok"
                   THEN /\ identities' = r.val
                        /\ idx' = idx + 1
                        /\ UNCHANGED <<pc, result>>
                   ELSE /\ result' = Err(r.err)
                        /\ pc' = "done"
                        /\ UNCHANGED <<idx, identities>>
    /\ UNCHANGED <<call, targetOs, dataDir, configDir, fs, defaultFile, filenames,
                   defaultFilename, located, noDefaultArgs, passVars>>

\* line 66: Ok(identities)
LoadReturn ==
    /\ call = "read_identities" /\ pc = "return"
    /\ result' = Ok(identities)
    /\ pc' = "done"
    /\ UNCHANGED <<call, loadVars, passVars>>

InitLoad ==
    /\ call = "read_identities"
    /\ pc = "start"
    /\ result = NoResult
    /\ InitLoadEnv
    /\ filenames \in SeqUpTo(FileNames, MaxFiles)
    /\ InitLoadState
    /\ confirm = FALSE
    /\ InitPassState

NextLoad ==
    \/ LoadEnter
    \/ LoadLocate
    \/ LoadOpenDefault
    \/ LoadParseDefault
    \/ LoadLoop
    \/ LoadReturn

SpecLoad == InitLoad /\ [][NextLoad]_vars

(***************************************************************************)
(* read_secret                                                             *)
(*                                                                         *)
(* PasswordInput::interact() is the loop: read the first entry (asked      *)
(* again while it is empty and empty is not allowed); with a confirmation  *)
(* prompt, read the second entry and return the first when the two are     *)
(* equal, otherwise show "Inputs do not match" and start over.  Every read *)
(* of the terminal may fail with an io::Error, which ends the call.        *)
(***************************************************************************)
\* The lines the user is seen to type: nothing, "a", "b", " a ".
Entries == {EmptyStr, <<97>>, <<98>>, <<32, 97, 32>>}

TermError == [from |-> "io", kind |-> "terminal"]

\* line 76: allow_empty_password(true) is set together with the confirmation
AllowEmpty == confirm

\* ConfirmAccepts with an empty first entry accepted whatever the second is.
ConfirmAccepts_EmptyAlways(first, second) == first = second \/ first = EmptyStr
\* ConfirmAccepts with the comparison dropped.
ConfirmAccepts_Always(first, second) == TRUE

\* line 75, with_confirmation(..): the round is accepted when the two entries
\* are equal.
ConfirmAccepts(first, second) == first = second

Typed(s) == [variant |-> "Typed", secret |-> s]
Generated(s) == [variant |-> "Generated", secret |-> s]

\* read_secret returns r: to its caller when called directly, into the `?`
\* of line 94 when called by read_or_generate_passphrase.
SecretReturns(r) ==
    IF call = "read_secret"
    THEN /\ result' = r
         /\ pc' = "done"
         /\ UNCHANGED res
    ELSE IF r.tag = "ok"
         THEN /\ res' = r.val
              /\ pc' = "check"
              /\ UNCHANGED result
         ELSE /\ result' = r
              /\ pc' = "done"
              /\ UNCHANGED res

\* line 70-72: PasswordInput::new().with_prompt(prompt)
SecretEnter ==
    /\ call = "read_secret" /\ pc = "start"
    /\ pc' = "prompt"
    /\ UNCHANGED <<call, result, loadVars, passVars>>

\* line 78, interact(): display `prompt` and read the first entry
PromptFirst ==
    /\ pc = "prompt"
    /\ prompts' = IF prompts < MaxPrompts THEN prompts + 1 ELSE prompts
    /\ \/ /\ SecretReturns(Err(TermError))
          /\ readFailed' = TRUE
          /\ UNCHANGED <<password, pw2>>
       \/ \E input \in Entries :
            /\ UNCHANGED readFailed
            /\ IF input = EmptyStr /\ ~AllowEmpty
               THEN UNCHANGED <<pc, result, res, password, pw2>>
               ELSE /\ password' = input
                    /\ pw2' = None
                    /\ IF confirm
                       THEN /\ pc' = "confirm"
                            /\ UNCHANGED <<result, res>>
                       ELSE SecretReturns(Ok(input))
    /\ UNCHANGED <<call, loadVars, confirm, acc, draws>>

\* line 78, interact(): display `confirm_prompt`, read the second entry, compare
PromptConfirm ==
    /\ pc = "confirm"
    /\ \/ /\ SecretReturns(Err(TermError))
          /\ readFailed' = TRUE
          /\ UNCHANGED pw2
       \/ \E input \in Entries :
            /\ UNCHANGED readFailed
            /\ pw2' = input
            /\ IF ConfirmAccepts(password, input)
               THEN SecretReturns(Ok(password))
               ELSE /\ pc' = "prompt"
                    /\ UNCHANGED <<result, res>>
    /\ UNCHANGED <<call, loadVars, confirm, password, prompts, acc, draws>>

(***************************************************************************)
(* read_or_generate_passphrase                                             *)
(***************************************************************************)
\* line 98: Uniform::from(0..2048)
SampleBound == 2048
\* line 100: (0..10)
DrawCount == 10
\* number of lines of assets/bip39-english.txt
WordCount == 2048

\* The word on line i (from 0) of the word list: pairwise distinct, non-empty,
\* lowercase.  Here the three base-26 digits of i as letters.
WordAt(i) == <<97 + (i \div 676), 97 + ((i \div 26) % 26), 97 + (i % 26)>>

\* BIP39_WORDLIST.lines().nth(i)
LinesNth(i) == IF i < WordCount THEN WordAt(i) ELSE None

\* the indices between.sample(&mut rng) is seen to yield: both ends of the
\* range and evenly spaced ones between
SampleIdx == {(k * (SampleBound - 1)) \div (MaxSamples - 1) : k \in 0..(MaxSamples - 1)}

\* FoldStep without the is_empty test: a separator before every word.
FoldStep_AlwaysSep(a, s) == a \o <<Hyphen>> \o s

\* line 107-113: the closure of the fold
FoldStep(a, s) == IF a = EmptyStr THEN a \o s ELSE a \o <<Hyphen>> \o s

\* IsGenerateBranch with the test inverted.
IsGenerateBranch_Inverted(s) == s # EmptyStr

\* line 96: which branch is taken for the secret the prompt returned
IsGenerateBranch(s) == s = EmptyStr

\* line 91-94: read_secret("Type passphrase ..", Some("Confirm passphrase"))
AcquireEnter ==
    /\ call = "read_or_generate_passphrase" /\ pc = "start"
    /\ confirm' = TRUE
    /\ pc' = "prompt"
    /\ UNCHANGED <<call, result, loadVars, password, pw2, prompts, readFailed, res, acc, draws>>

\* line 96: if res.expose_secret().is_empty(); line 116: Ok(Passphrase::Typed(res))
AcquireCheck ==
    /\ call = "read_or_generate_passphrase" /\ pc = "check"
    /\ IF IsGenerateBranch(res)
       THEN /\ pc' = "generate"
            /\ UNCHANGED result
       ELSE /\ result' = Ok(Typed(res))
            /\ pc' = "done"
    /\ UNCHANGED <<call, loadVars, passVars>>

\* line 100-113: one element of (0..10).map(..).fold(..)
AcquireDraw ==
    /\ call = "read_or_generate_passphrase" /\ pc = "generate"
    /\ Len(draws) < DrawCount
    /\ \E i \in SampleIdx :
         /\ draws' = Append(draws, i)
         /\ IF LinesNth(i) = None
            THEN /\ result' = Panic
                 /\ pc' = "done"
                 /\ UNCHANGED acc
            ELSE /\ acc' = FoldStep(acc, LinesNth(i))
                 /\ UNCHANGED <<pc, result>>
    /\ UNCHANGED <<call, loadVars, confirm, password, pw2, prompts, readFailed, res>>

\* line 114: Ok(Passphrase::Generated(SecretString::new(new_passphrase)))
AcquireGenerated ==
    /\ call = "read_or_generate_passphrase" /\ pc = "generate"
    /\ Len(draws) = DrawCount
    /\ result' = Ok(Generated(acc))
    /\ pc' = "done"
    /\ UNCHANGED <<call, loadVars, passVars>>

InitPass ==
    /\ \/ call = "read_secret" /\ confirm \in BOOLEAN
       \/ call = "read_or_generate_passphrase" /\ confirm = FALSE
    /\ pc = "start"
    /\ result = NoResult
    /\ targetOs = "other"
    /\ dataDir = None
    /\ configDir = None
    /\ fs = [n \in FileNames |-> [tag |-> "parse_err"]]
    /\ defaultFile = [tag |-> "parse_err"]
    /\ filenames = <<>>
    /\ InitLoadState
    /\ InitPassState

NextPass ==
    \/ SecretEnter
    \/ PromptFirst
    \/ PromptConfirm
    \/ AcquireEnter
    \/ AcquireCheck
    \/ AcquireDraw
    \/ AcquireGenerated

SpecPass == InitPass /\ [][NextPass]_vars

Init == InitLoad \/ InitPass
Next == NextLoad \/ NextPass
Spec == Init /\ [][Next]_vars

(***************************************************************************)
(* Properties of read_identities (checked under SpecLoad).                 *)
(***************************************************************************)
LoadDone == call = "read_identities" /\ pc = "done"

AllOk(fl) == \A i \in 1..Len(fl) : fs[fl[i]].tag = "ok"

\* the identities of the files of fl, file after file
RECURSIVE Concat(_)
Concat(fl) == IF fl = <<>> THEN <<>> ELSE fs[Head(fl)].ids \o Concat(Tail(fl))

\* position of the first file of fl that does not open or parse
FirstFailure(fl) ==
    CHOOSE i \in 1..Len(fl) :
        fs[fl[i]].tag # "ok" /\ \A j \in 1..(i - 1) : fs[fl[j]].tag = "ok"

ErrorOf(o) == IF o.tag = "open_err" THEN FromIo(o.kind) ELSE ParseError

DefaultMissing ==
    /\ filenames = <<>>
    /\ get_config_dir # None
    /\ defaultFile.tag = "open_err"
    /\ defaultFile.kind = "NotFound"

\* C1: when the path list is empty and the default file does not exist,
\* on_missing is invoked exactly once, with the computed default path
\* <config-dir>/age/keys.txt, and the call returns the error on_missing built
\* (no identities, no panic).
C1_OnMissingGetsDefaultPath ==
    (LoadDone /\ DefaultMissing) =>
        /\ defaultFilename = PathPush(get_config_dir, AgeKeysTxt)
        /\ noDefaultArgs = <<defaultFilename>>
        /\ result = Err(NoDefaultError(defaultFilename))

\* C2: on_missing is invoked only for an empty path list whose default file
\* does not exist.  With a non-empty list it is never invoked and a file that
\* fails to open yields that I/O error; with an empty list and an open failure
\* other than not-found it is not invoked and that I/O error is returned.
C2_OnMissingOnlyForAbsentDefault ==
    call = "read_identities" =>
        /\ noDefaultArgs # <<>> => DefaultMissing
        /\ (filenames # <<>> /\ pc = "done" /\ ~AllOk(filenames)) =>
              LET o == fs[filenames[FirstFailure(filenames)]]
              IN  o.tag = "open_err" => result = Err([from |-> "io", kind |-> o.kind])
        /\ (filenames = <<>> /\ pc = "done" /\ get_config_dir # None
              /\ defaultFile.tag = "open_err" /\ defaultFile.kind # "NotFound") =>
              result = Err([from |-> "io", kind |-> defaultFile.kind])

\* C2 witness: an explicit file is missing; the call ended with the not-found
\* I/O error and on_missing was not invoked.
C2_Witness ==
    /\ LoadDone
    /\ filenames # <<>>
    /\ result = Err([from |-> "io", kind |-> "NotFound"])
    /\ noDefaultArgs = <<>>

\* C3: for a non-empty path list whose files all open and parse, the result is
\* the concatenation of the files' identities in the order of the list, each
\* file's identities in file order, duplicates retained; so the result for
\* [A, B] is the result for [A] followed by the result for [B].
C3_ConcatenationInOrder ==
    (LoadDone /\ filenames # <<>> /\ AllOk(filenames)) =>
        /\ result = Ok(Concat(filenames))
        /\ \A k \in 0..Len(filenames) :
              result.val = Concat(SubSeq(filenames, 1, k))
                           \o Concat(SubSeq(filenames, k + 1, Len(filenames)))

\* C3 witness: [X, Y, X] with X listed twice was loaded, X's identities are
\* in the result twice.
C3_Witness ==
    /\ LoadDone
    /\ result.tag = "ok"
    /\ Len(filenames) >= 3
    /\ filenames[1] = filenames[3]
    /\ filenames[1] # filenames[2]
    /\ fs[filenames[1]].ids # <<>>
    /\ fs[filenames[2]].ids # <<>>
    /\ Len(result.val) = 2 * Len(fs[filenames[1]].ids) + Len(fs[filenames[2]].ids)

\* C4: if a file fails to open or parse, the call stops there: it returns that
\* first error and no identities, and no later path is opened.
C4_AllOrNothing ==
    /\ (LoadDone /\ filenames # <<>> /\ ~AllOk(filenames)) =>
          LET j == FirstFailure(filenames)
          IN  /\ result = Err(ErrorOf(fs[filenames[j]]))
              /\ opened = SubSeq(filenames, 1, j)
    /\ (LoadDone /\ filenames = <<>> /\ get_config_dir # None
          /\ defaultFile.tag # "ok") =>
          /\ result.tag = "err"
          /\ opened = <<defaultFilename>>

\* C4 witness: the second of three files failed after the first had yielded
\* identities; the call returned an error and the third was not opened.
C4_Witness ==
    /\ LoadDone
    /\ Len(filenames) = 3
    /\ Len(opened) = 2
    /\ identities # <<>>
    /\ result.tag = "err"

\* the result of a call with the non-empty list fl, from the files alone
ExpectedExplicit(fl) ==
    IF AllOk(fl) THEN Ok(Concat(fl))
    ELSE Err(ErrorOf(fs[fl[FirstFailure(fl)]]))

\* C10: with an empty path list and no config directory the call ends in a
\* fatal failure: on_missing is not invoked, no file is opened, no path is
\* made up, nothing is returned.  With a non-empty list the config directory
\* is not looked up and the result depends on the files only.
C10_AbsentConfigDirIsFatal ==
    /\ (LoadDone /\ filenames = <<>> /\ get_config_dir = None) =>
          /\ result = Panic
          /\ noDefaultArgs = <<>>
          /\ opened = <<>>
          /\ defaultFilename = None
    /\ (call = "read_identities" /\ filenames # <<>>) =>
          /\ located = 0
          /\ defaultFilename = None
          /\ pc = "done" => result = ExpectedExplicit(filenames)

\* C10 witness: a call with an empty list and no config directory panicked.
C10_Witness ==
    /\ LoadDone
    /\ filenames = <<>>
    /\ located = 1
    /\ result = Panic

(***************************************************************************)
(* Properties of read_secret and read_or_generate_passphrase (checked      *)
(* under SpecPass).                                                        *)
(***************************************************************************)
Acquire == call = "read_or_generate_passphrase"

\* read_secret has returned Ok(v)
SecretReturned(v) ==
    IF call = "read_secret" THEN pc = "done" /\ result = Ok(v)
    ELSE res = v

\* read_secret has returned Ok(_)
SecretReturnedOk ==
    IF call = "read_secret" THEN pc = "done" /\ result.tag = "ok"
    ELSE res # None

\* C5: when the prompt returns a non-empty secret v, the result is Typed(v),
\* v being exactly what was typed, and no index is drawn; a Generated result
\* occurs only when the prompt returned the empty secret.
C5_ProvenanceTagAccurate ==
    Acquire =>
        /\ (res # None /\ res # EmptyStr) =>
              /\ res = password
              /\ draws = <<>>
              /\ pc \in {"check", "done"}
              /\ pc = "done" => result = Ok([variant |-> "Typed", secret |-> password])
        /\ (pc = "done" /\ result.tag = "ok" /\ result.val.variant = "Generated") =>
              res = EmptyStr /\ password = EmptyStr

\* C5 witness: " a " was typed twice and came back as Typed(" a ").
C5_Witness ==
    /\ Acquire
    /\ pc = "done"
    /\ result = Ok([variant |-> "Typed", secret |-> <<32, 97, 32>>])

WordsOf(d) == [i \in 1..Len(d) |-> WordAt(d[i])]

RECURSIVE JoinWith(_, _)
JoinWith(ws, sep) ==
    IF Len(ws) = 0 THEN <<>>
    ELSE IF Len(ws) = 1 THEN ws[1]
    ELSE ws[1] \o <<sep>> \o JoinWith(Tail(ws), sep)

RECURSIVE SplitOn(_, _)
SplitOn(s, c) ==
    IF \A i \in 1..Len(s) : s[i] # c THEN <<s>>
    ELSE LET k == CHOOSE i \in 1..Len(s) :
                      s[i] = c /\ \A j \in 1..(i - 1) : s[j] # c
         IN  <<SubSeq(s, 1, k - 1)>> \o SplitOn(SubSeq(s, k + 1, Len(s)), c)

CountOf(s, c) == Cardinality({i \in 1..Len(s) : s[i] = c})

\* C6: a Generated passphrase is made of exactly 10 draws: the word-list
\* entries at the drawn indices, in draw order, one '-' between consecutive
\* words, none before the first or after the last: 10 words, 9 hyphens, every
\* word an entry of the word list.
C6_TenWordsNineHyphens ==
    (Acquire /\ pc = "done" /\ result.tag = "ok"
       /\ result.val.variant = "Generated") =>
        LET p == result.val.secret
        IN  /\ Len(draws) = 10
            /\ \A i \in 1..Len(draws) : draws[i] \in 0..2047
            /\ p = JoinWith(WordsOf(draws), Hyphen)
            /\ CountOf(p, Hyphen) = 9
            /\ p[1] # Hyphen /\ p[Len(p)] # Hyphen
            /\ SplitOn(p, Hyphen) = WordsOf(draws)
            /\ \A i \in 1..10 : SplitOn(p, Hyphen)[i] = LinesNth(draws[i])

\* C6 witness: a passphrase was generated from draws that hit both ends of
\* the range and the same index twice in a row.
C6_Witness ==
    /\ Acquire
    /\ pc = "done"
    /\ result.tag = "ok"
    /\ result.val.variant = "Generated"
    /\ draws[1] = 0
    /\ draws[2] = 0
    /\ draws[10] = 2047

\* C7 as claimed: with a confirmation label, once an empty first entry and a
\* confirmation entry have been read, the call has returned the empty secret,
\* whatever the confirmation entry was.
C7_EmptyAcceptedRegardless ==
    (confirm /\ password = EmptyStr /\ pw2 # None) => SecretReturned(EmptyStr)

\* C7 as amended: with a confirmation label, an empty first entry is accepted
\* when the confirmation entry is empty too, and then the call returns the
\* empty secret without a re-prompt; a non-empty confirmation entry does not
\* match it, nothing is returned and the first prompt is shown again.
C7_EmptyAcceptedWhenConfirmedEmpty ==
    (confirm /\ password = EmptyStr /\ pw2 # None) =>
        IF pw2 = EmptyStr THEN SecretReturned(EmptyStr)
        ELSE /\ ~SecretReturnedOk
             /\ pc = "prompt" \/ (pc = "done" /\ readFailed)

\* C7 witness: read_secret with a confirmation label returned the empty
\* secret after two empty entries, the first prompt having been shown once.
C7_Witness ==
    /\ call = "read_secret"
    /\ confirm
    /\ password = EmptyStr
    /\ pw2 = EmptyStr
    /\ prompts = 1
    /\ pc = "done"
    /\ result = Ok(EmptyStr)

\* C8: with a confirmation label, a non-empty entry whose confirmation differs
\* does not fail the call and is not returned: the first prompt is shown
\* again; a returned value is one both entries of the last round were equal
\* to; the call returns an error only when a read of the terminal failed.
C8_MismatchReprompts ==
    (call = "read_secret" \/ Acquire) =>
        /\ (confirm /\ password # None /\ password # EmptyStr
              /\ pw2 # None /\ pw2 # password) =>
              /\ ~SecretReturnedOk
              /\ ~readFailed => (pc = "prompt" /\ result = NoResult)
        /\ (confirm /\ SecretReturnedOk) =>
              /\ password = pw2
              /\ SecretReturned(password)
        /\ result.tag = "err" => readFailed /\ result.err = TermError
        /\ result.tag # "panic"

\* C8 witness: read_secret returned "a" after the first prompt had been shown
\* at least twice, that is after a mismatch.
C8_Witness ==
    /\ call = "read_secret"
    /\ confirm
    /\ prompts >= 2
    /\ pc = "done"
    /\ result = Ok(<<97>>)

====
